---- MODULE Spec2Model ----
(***************************************************************************)
(* A model of sloth.py (class ShaderGenerator): the option setters, the    *)
(* per-folder generation of shader data (generateSet) with its option      *)
(* cascade and light-shader expansion, and the assembly of the shader text  *)
(* (getShader).                                                            *)
(*                                                                         *)
(* Python values are modelled as follows.                                  *)
(*   str            a TLA+ string                                          *)
(*   None           the empty string (see None below)                      *)
(*   dict           an ordered dictionary [order, m] (insertion order and   *)
(*                  the mapping), or a record whose DOMAIN is the key set  *)
(*                  where the order of the keys is never observed          *)
(*   float          an integer number of hundredths                        *)
(*   an exception   the name of its type in the field exc of a result      *)
(***************************************************************************)
EXTENDS Integers, Sequences, FiniteSets, TLC

\* sets, header, suffixes and options are the fields of the generator; last
\* records the call made last (its arguments, what it printed to stderr, the
\* exception it raised, what it returned) and nops the number of calls made
VARIABLES sets, header, suffixes, options, last, nops

vars == <<sets, header, suffixes, options, last, nops>>

(***************************************************************************)
(* Bounds of the exploration.                                              *)
(***************************************************************************)
\* number of state-changing calls made on one generator
MaxOps == 2

(***************************************************************************)
(* Evaluation.                                                             *)
(***************************************************************************)
\* Op(v), with v evaluated once before Op uses it: the loops below hand
\* their state from one round to the next through it
Apply(Op(_), v) == CHOOSE r \in {Op(x) : x \in {v}} : TRUE

(***************************************************************************)
(* Strings.                                                                *)
(***************************************************************************)
\* Python's None. Every test the source makes on a value that may be None
\* is a truth test ("if shader[...]", "if not setname"), under which None and
\* the empty string behave alike, and no map name or set name is empty.
None == ""

NoException == "no exception"

Substr(s, i, j) == IF i > j THEN "" ELSE SubSeq(s, i, j)

CharAt(s, i) == SubSeq(s, i, i)

StartsWith(s, p) == Len(s) >= Len(p) /\ Substr(s, 1, Len(p)) = p

EndsWith(s, suffix) ==
    Len(s) >= Len(suffix) /\ Substr(s, Len(s) - Len(suffix) + 1, Len(s)) = suffix

\* the positions at which sep occurs in s
Occurrences(s, sep) ==
    {i \in 1..(Len(s) - Len(sep) + 1) : Substr(s, i, i + Len(sep) - 1) = sep}

Contains(s, word) == Occurrences(s, word) # {}

SetMax(S) == CHOOSE x \in S : \A y \in S : y <= x

SetMin(S) == CHOOSE x \in S : \A y \in S : x <= y

\* s.rsplit(sep)[0]: rsplit without maxsplit cuts at every occurrence of
\* sep, scanning from the right; element 0 is what is left of the last cut.
RECURSIVE RSplitHead(_, _)
RSplitHead(s, sep) ==
    LET cut(occ) == IF occ = {} THEN s
                    ELSE Apply(LAMBDA rest : RSplitHead(rest, sep),
                               Substr(s, 1, SetMax(occ) - 1))
    IN  Apply(cut, Occurrences(s, sep))

\* s.split(":"): the pieces between the occurrences of sep (one character)
RECURSIVE Split(_, _)
Split(s, sep) ==
    LET cut(occ) == IF occ = {} THEN <<s>>
                    ELSE <<Substr(s, 1, SetMin(occ) - 1)>>
                         \o Apply(LAMBDA rest : Split(rest, sep),
                                  Substr(s, SetMin(occ) + 1, Len(s)))
    IN  Apply(cut, Occurrences(s, sep))

\* text.splitlines()
SplitLines(text) ==
    IF text = "" THEN <<>>
    ELSE Apply(LAMBDA parts : IF parts[Len(parts)] = ""
                              THEN SubSeq(parts, 1, Len(parts) - 1) ELSE parts,
               Split(text, "\n"))

\* the characters of the names in code point order
Alphabet == "/0123456789ABCDEFGHIJKLMNOPQRSTUVWXYZ_abcdefghijklmnopqrstuvwxyz"

Ord(c) == CHOOSE i \in 1..Len(Alphabet) : CharAt(Alphabet, i) = c

\* a < b for Python strings: the first place where they differ decides,
\* and a proper prefix is the smaller
StrLess(a, b) ==
    LET n    == IF Len(a) < Len(b) THEN Len(a) ELSE Len(b)
        diff == {i \in 1..n : CharAt(a, i) # CharAt(b, i)}
        at(d) == IF d = {} THEN Len(a) < Len(b)
                 ELSE Ord(CharAt(a, SetMin(d))) < Ord(CharAt(b, SetMin(d)))
    IN  Apply(at, diff)

\* sorted(S) for a set of strings
RECURSIVE Sorted(_)
Sorted(S) ==
    IF S = {} THEN <<>>
    ELSE Apply(LAMBDA least : <<least>> \o Apply(Sorted, S \ {least}),
               CHOOSE x \in S : \A y \in S \ {x} : StrLess(x, y))

HexDigits == "0123456789abcdef"

IsHexDigit(c) == \E i \in 1..Len(HexDigits) : CharAt(HexDigits, i) = c

HexDigit(c) == (CHOOSE i \in 1..Len(HexDigits) : CharAt(HexDigits, i) = c) - 1

\* int(text, 16) for two hexadecimal digits
Hex2(text) == HexDigit(CharAt(text, 1)) * 16 + HexDigit(CharAt(text, 2))

\* colorRE.match(color): ^[0-9a-f]{6}$
ColorMatches(color) ==
    Len(color) = 6 /\ \A i \in 1..6 : IsHexDigit(CharAt(color, i))

\* int(text) for a decimal literal with an optional sign
RECURSIVE ParseDigits(_, _)
ParseDigits(text, n) ==
    IF n = 0 THEN 0
    ELSE ParseDigits(text, n - 1) * 10 + HexDigit(CharAt(text, n))

ParseInt(text) ==
    IF StartsWith(text, "-")
    THEN 0 - ParseDigits(Substr(text, 2, Len(text)), Len(text) - 1)
    ELSE ParseDigits(text, Len(text))

\* "%.2f" % x, x given in hundredths
Format2f(h) ==
    ToString(h \div 100) \o "." \o ToString((h % 100) \div 10) \o ToString(h % 10)

\* " " * n
RECURSIVE Spaces(_)
Spaces(n) == IF n <= 0 THEN "" ELSE " " \o Spaces(n - 1)

RECURSIVE Dashes(_)
Dashes(n) == IF n <= 0 THEN "" ELSE "-" \o Dashes(n - 1)

Max(a, b) == IF a >= b THEN a ELSE b

(***************************************************************************)
(* Dictionaries.                                                           *)
(***************************************************************************)
\* d[k] = v on a record used as a dict
Put(d, k, v) == [x \in (DOMAIN d) \cup {k} |-> IF x = k THEN v ELSE d[x]]

\* dict() with insertion order
EmptyDict == [order |-> <<>>, m |-> <<>>]

Keys(d) == DOMAIN d.m

\* d[k] = v: a new key goes last, a known key keeps its place
DictSet(d, k, v) ==
    [order |-> IF k \in Keys(d) THEN d.order ELSE Append(d.order, k),
     m     |-> Put(d.m, k, v)]

\* d.pop(k)
DictPop(d, k) ==
    [order |-> SelectSeq(d.order, LAMBDA x : x # k),
     m     |-> [x \in Keys(d) \ {k} |-> d.m[x]]]

\* d.update(e)
RECURSIVE DictUpdateFrom(_, _, _)
DictUpdateFrom(d, e, i) ==
    IF i > Len(e.order) THEN d
    ELSE Apply(LAMBDA d1 : DictUpdateFrom(d1, e, i + 1),
               DictSet(d, e.order[i], e.m[e.order[i]]))

DictUpdate(d, e) == DictUpdateFrom(d, e, 1)

(***************************************************************************)
(* Python values whose type the source tests.                              *)
(***************************************************************************)
PyNone == [type |-> "NoneType"]

\* a float, in hundredths
PyFloat(h) == [type |-> "float", f |-> h]

PyStr(s) == [type |-> "str", s |-> s]

PyInt(i) == [type |-> "int", i |-> i]

\* bool(x)
Truthy(x) ==
    CASE x.type = "NoneType" -> FALSE
      [] x.type = "float"    -> x.f # 0
      [] x.type = "int"      -> x.i # 0
      [] x.type = "str"      -> x.s # ""

(***************************************************************************)
(* Global options and per-shader options.                                  *)
(***************************************************************************)
\* self["options"] as __init__ leaves it; radToAddExp and heightNormalsMod
\* are floats, 1.0 each
DefaultOptions ==
    [lightColors      |-> EmptyDict,
     customLights     |-> EmptyDict,
     predefLights     |-> EmptyDict,
     guessKeywords    |-> FALSE,
     radToAddExp      |-> 100,
     heightNormalsMod |-> 100,
     alphaTest        |-> PyNone,
     alphaShadows     |-> TRUE]

\* the suffixes setSuffixes stores; its defaults are those of the signature
DefaultSuffixes ==
    [diffuse |-> "_d", normal |-> "_n", height |-> "_h",
     specular |-> "_s", addition |-> "_a", preview |-> "_p"]

\* self.suffixes.items(): the keys in the order setSuffixes inserts them
MapTypes == <<"diffuse", "normal", "height", "specular", "addition", "preview">>

\* the result of a helper that works on an options dict: the options after
\* it, what it printed to sys.stderr, and the exception it raised, if any
Result(opts, stderr, exc) == [options |-> opts, stderr |-> stderr, exc |-> exc]

__setKeywordGuessing(opts, value) == [opts EXCEPT !.guessKeywords = value]

__setRadToAddExponent(opts, value) == [opts EXCEPT !.radToAddExp = value]

__setHeightNormalsMod(opts, value) == [opts EXCEPT !.heightNormalsMod = value]

__setAlphaShadows(opts, value) == [opts EXCEPT !.alphaShadows = value]

AlphaTestMessage ==
    "Alpha test must be either None, a valid string or a float between 0 and 1."

__setAlphaTest(opts, test) ==
    IF test.type = "float" /\ 0 <= test.f /\ test.f <= 100
    THEN Result([opts EXCEPT !.alphaTest = test], <<>>, NoException)
    ELSE IF test.type = "str" /\ test.s \in {"GT0", "GE128", "LT128"}
    THEN Result([opts EXCEPT !.alphaTest = test], <<>>, NoException)
    ELSE IF test = PyNone
    THEN Result([opts EXCEPT !.alphaTest = PyNone], <<>>, NoException)
    ELSE Result(opts, <<AlphaTestMessage>>, NoException)

\* "%02x%02x%02x" % rgb
Hex2Text(n) == CharAt(HexDigits, (n \div 16) + 1) \o CharAt(HexDigits, (n % 16) + 1)

ColorText(rgb) == Hex2Text(rgb[1]) \o Hex2Text(rgb[2]) \o Hex2Text(rgb[3])

__addLightColor(opts, name, color) ==
    IF ~ColorMatches(color)
    THEN Result(opts, <<"Not a valid color: " \o color \o ". Format is [0-9][a-f]{6}.">>,
                NoException)
    ELSE LET rgb == <<Hex2(Substr(color, 1, 2)), Hex2(Substr(color, 3, 4)),
                      Hex2(Substr(color, 5, 6))>>
             old == opts.lightColors
             warn == IF name \in Keys(old) /\ rgb # old.m[name]
                     THEN <<"Overwriting light color " \o name \o ": "
                            \o ColorText(old.m[name]) \o " -> " \o color>>
                     ELSE <<>>
         IN  Result([opts EXCEPT !.lightColors = DictSet(old, name, rgb)], warn,
                    NoException)

\* the name under which an intensity is stored
IntensityName(intensity) ==
    IF intensity >= 10000 THEN ToString(intensity \div 1000) \o "k"
    ELSE IF intensity = 0 THEN "norad"
    ELSE ToString(intensity)

\* Line 184 subscripts the value of print(), which is None: after the
\* message is written the statement raises TypeError and the return on
\* line 185 is never reached.
__addLightIntensity(opts, intensity, custom) ==
    IF intensity < 0
    THEN Result(opts, <<"Ignoring negative light intensity.">>, "TypeError")
    ELSE IF custom
    THEN Result([opts EXCEPT !.customLights =
                     DictSet(@, IntensityName(intensity), intensity)],
                <<>>, NoException)
    ELSE Result([opts EXCEPT !.predefLights =
                     DictSet(@, IntensityName(intensity), intensity)],
                <<>>, NoException)

\* deepcopy of the options: values have no identity here, the copy is the value
__copyOptions(source) == source

(***************************************************************************)
(* Per-shader option files.                                                *)
(*                                                                         *)
(* An option file is given by the keys of its [light] section, each with   *)
(* its text. The files of the model do not set color_blend_exp.            *)
(***************************************************************************)
\* value.split(): the pieces between runs of blanks
Tokens(value) == SelectSeq(Split(value, " "), LAMBDA t : t # "")

\* the calls __parseSlothFile makes for one key, in the order of the tokens
ColorCalls(value) ==
    LET toks == Tokens(value)
    IN  [i \in 1..Len(toks) |-> [call |-> "color", token |-> toks[i]]]

IntensityCalls(value, custom) ==
    LET toks == Tokens(value)
    IN  [i \in 1..Len(toks) |->
            [call |-> "intensity", token |-> toks[i], custom |-> custom]]

\* the steps of __parseSlothFile on a parsed file, in source order
SlothCalls(config) ==
       (IF "colors" \in DOMAIN config
        THEN <<[call |-> "clear", what |-> "lightColors"]>> \o ColorCalls(config.colors)
        ELSE <<>>)
    \o (IF "add_colors" \in DOMAIN config THEN ColorCalls(config.add_colors) ELSE <<>>)
    \o (IF "predef_lights" \in DOMAIN config
        THEN <<[call |-> "clear", what |-> "predefLights"]>>
             \o IntensityCalls(config.predef_lights, FALSE)
        ELSE <<>>)
    \o (IF "add_predef_lights" \in DOMAIN config
        THEN IntensityCalls(config.add_predef_lights, FALSE) ELSE <<>>)
    \o (IF "custom_lights" \in DOMAIN config
        THEN <<[call |-> "clear", what |-> "customLights"]>>
             \o IntensityCalls(config.custom_lights, TRUE)
        ELSE <<>>)
    \o (IF "add_custom_lights" \in DOMAIN config
        THEN IntensityCalls(config.add_custom_lights, TRUE) ELSE <<>>)

\* one step: a token that does not split into name and color is skipped
SlothStep(opts, c) ==
    CASE c.call = "clear" ->
           Result([opts EXCEPT ![c.what] = EmptyDict], <<>>, NoException)
      [] c.call = "color" ->
           LET parts == Split(c.token, ":")
           IN  IF Len(parts) # 2 THEN Result(opts, <<>>, NoException)
               ELSE __addLightColor(opts, parts[1], parts[2])
      [] c.call = "intensity" ->
           __addLightIntensity(opts, ParseInt(c.token), c.custom)

\* the steps from the i-th on; an exception ends the parse where it is raised
RECURSIVE SlothRun(_, _, _)
SlothRun(r, calls, i) ==
    IF i > Len(calls) \/ r.exc # NoException THEN r
    ELSE Apply(LAMBDA r1 : SlothRun(r1, calls, i + 1),
               Apply(LAMBDA step : Result(step.options, r.stderr \o step.stderr, step.exc),
                     SlothStep(r.options, calls[i])))

\* __parseSlothFile on the options, for a file that is read and parsed
__parseSlothFile(opts, config, path) ==
    Apply(LAMBDA calls :
              SlothRun(Result(opts, <<"Parsing per-folder options file: " \o path>>,
                              NoException), calls, 1),
          SlothCalls(config))

(***************************************************************************)
(* A source folder: its absolute path, the files os.listdir returns as      *)
(* pairs <<name without extension, extension>>, the content of its option   *)
(* files and, for each image, what PIL reports of it.                      *)
(***************************************************************************)
slothFileExt == ".sloth"

defaultSlothFile == "options" \o slothFileExt

\* os.path.basename, os.path.dirname
Basename(path) == Substr(path, SetMax(Occurrences(path, "/") \cup {0}) + 1, Len(path))

Dirname(path) == Substr(path, 1, SetMax(Occurrences(path, "/") \cup {1}) - 1)

\* relpath of generateSet: root + "/" + basename of the folder
RelPath(abspath) == Basename(Dirname(abspath)) \o "/" \o Basename(abspath)

Images(dir) == {f \in dir.files : f[2] # slothFileExt}

\* slothfiles
SlothFiles(dir) == {f[1] : f \in {g \in dir.files : g[2] = slothFileExt}}

\* mapsbytype[maptype]; the dict has no key at all when the folder holds no
\* file other than option files (see HasMapTypes)
MapsByType(dir, suf, maptype) ==
    {f[1] : f \in {g \in Images(dir) : EndsWith(g[1], suf[maptype])}}

HasMapTypes(dir) == Images(dir) # {}

\* mapext[mapname]; no two images of a folder of the model share a name
MapExt(dir, mapname) == (CHOOSE f \in Images(dir) : f[1] = mapname)[2]

(***************************************************************************)
(* Building one shader (the body of the loop of generateSet).              *)
(*                                                                         *)
(* A shader is a record whose DOMAIN is the key set of the Python dict: a  *)
(* key the source never assigned is not in the DOMAIN.                     *)
(***************************************************************************)
\* SearchMap without the shortening of line 441: the full name or nothing
SearchMapExact(basename, suffix, maps) ==
    IF basename # "" /\ (basename \o suffix) \in maps THEN basename ELSE ""

\* the while loop of lines 427-441: the value of basename when it ends, ""
\* when no shortening of the name gives a known map
RECURSIVE SearchMap(_, _, _)
SearchMap(basename, suffix, maps) ==
    IF basename = "" THEN ""
    ELSE IF (basename \o suffix) \in maps THEN basename
    ELSE Apply(LAMBDA shorter : SearchMap(shorter, suffix, maps),
               Substr(basename, 1, Len(basename) - 1))

\* lines 411-422
InitShader(opts, shadername, dir, diffusename) ==
    [options |-> __copyOptions(opts),
     name    |-> shadername,
     relpath |-> RelPath(dir.abspath),
     abspath |-> dir.abspath,
     diffuse |-> diffusename,
     ext     |-> [diffuse |-> MapExt(dir, diffusename)],
     meta    |-> <<>>]

\* one round of the loop of lines 426-445, on st = [shader, stderr, exc]
FindMap(st, dir, suf, maptype) ==
    LET sh == st.shader
        found(basename) ==
            LET mapname == basename \o suf[maptype]
            IN  IF basename = ""
                THEN [st EXCEPT !.shader =
                         [x \in (DOMAIN sh) \cup {maptype} |->
                             IF x = maptype THEN None
                             ELSE IF x = "ext" THEN Put(sh.ext, maptype, None)
                             ELSE sh[x]]]
                ELSE IF mapname \in SlothFiles(dir)
                THEN Apply(LAMBDA r : [shader |-> [sh EXCEPT !.options = r.options],
                                       stderr |-> st.stderr \o r.stderr,
                                       exc    |-> r.exc],
                           __parseSlothFile(sh.options, dir.sloth[mapname],
                               dir.abspath \o "/" \o mapname \o slothFileExt))
                ELSE [st EXCEPT !.shader =
                         [x \in (DOMAIN sh) \cup {maptype} |->
                             IF x = maptype THEN mapname
                             ELSE IF x = "ext"
                             THEN Put(sh.ext, maptype, MapExt(dir, mapname))
                             ELSE sh[x]]]
    IN  Apply(found, SearchMap(sh.name, suf[maptype], MapsByType(dir, suf, maptype)))

\* the loop over self.suffixes.items(), from the i-th map type on
RECURSIVE FindMaps(_, _, _, _)
FindMaps(st, dir, suf, i) ==
    IF i > Len(MapTypes) \/ st.exc # NoException THEN st
    ELSE Apply(LAMBDA st1 : FindMaps(st1, dir, suf, i + 1),
               FindMap(st, dir, suf, MapTypes[i]))

\* what PIL tells of an image
HasAlpha(img) == img.mode \in {"RGBA", "LA"} \/ (img.mode = "P" /\ img.transparency)

IsGrayscale(img) == img.mode \in {"L", "LA"}

\* __analyzeMaps: a diffuse slot that holds None makes the path expression
\* of line 284 raise TypeError; a shader without the key addition makes line
\* 288 raise KeyError
__analyzeMaps(st, dir) ==
    LET sh == st.shader
    IN  IF sh.diffuse = None THEN [st EXCEPT !.exc = "TypeError"]
        ELSE IF "addition" \notin DOMAIN sh
        THEN [st EXCEPT !.shader.meta =
                            Put(@, "diffuseAlpha", HasAlpha(dir.image[sh.diffuse])),
                        !.exc = "KeyError"]
        ELSE [st EXCEPT !.shader.meta =
                 [diffuseAlpha      |-> HasAlpha(dir.image[sh.diffuse]),
                  additionGrayscale |-> IF sh.addition # None
                                        THEN IsGrayscale(dir.image[sh.addition])
                                        ELSE FALSE]]

\* the values of the keywords dict: a string or a set of strings
KwStr(s) == [str |-> s]

KwSet(S) == [set |-> S]

\* surfaceParms: surfaceparm value -> words that trigger it
surfaceParms ==
    [donotenter |-> {"lava", "slime"},
     dust       |-> {"sand", "dust"},
     flesh      |-> {"flesh", "meat", "organ"},
     ladder     |-> {"ladder"},
     lava       |-> {"lava"},
     metalsteps |-> {"metal", "steel", "iron", "tread", "grate"},
     slick      |-> {"ice"},
     slime      |-> {"slime"},
     water      |-> {"water"}]

\* keywords["surfaceparm"] with the values of S added
AddSurfaceParms(kw, S) ==
    IF S = {} THEN kw
    ELSE Put(kw, "surfaceparm",
             KwSet((IF "surfaceparm" \in DOMAIN kw THEN kw.surfaceparm.set ELSE {}) \cup S))

\* __addKeywords
__addKeywords(sh) ==
    LET at == sh.options.alphaTest
        \* lines 300-311
        alpha(kw) ==
            IF ~sh.meta.diffuseAlpha THEN kw
            ELSE Apply(LAMBDA a : IF sh.options.alphaShadows
                                  THEN AddSurfaceParms(a, {"alphashadows"})
                                  ELSE a,
                       Apply(LAMBDA c : IF ~Truthy(at) THEN c
                                        ELSE IF at.type = "str"
                                        THEN Put(c, "alphaFunc", KwStr(at.s))
                                        ELSE Put(c, "alphaTest", KwStr(Format2f(at.f))),
                             Put(kw, "cull", KwStr("none"))))
        \* lines 313-319
        guess(kw) ==
            IF ~sh.options.guessKeywords THEN kw
            ELSE AddSurfaceParms(kw,
                     {p \in DOMAIN surfaceParms :
                         \E word \in surfaceParms[p] : Contains(sh.name, word)})
    IN  Apply(LAMBDA kw : Put(sh, "keywords", kw),
              Apply(guess,
                    Apply(alpha, IF "keywords" \in DOMAIN sh THEN sh.keywords ELSE <<>>)))

(***************************************************************************)
(* __expandLightShaders.                                                   *)
(***************************************************************************)
\* the copies made of one shader with an addition map, as pairs
\* <<name, shader>> in the order the loops of lines 337-351 make them
LightVariants(shadername, shader) ==
    LET colors  == shader.options.lightColors
        customs == shader.options.customLights
        predefs == shader.options.predefLights
        nc      == Len(colors.order)
        ni      == Len(customs.order)
    IN  IF shader.meta.additionGrayscale
        THEN [k \in 1..(nc * ni) |->
                LET colorName     == colors.order[((k - 1) \div ni) + 1]
                    intensityName == customs.order[((k - 1) % ni) + 1]
                    rgb           == colors.m[colorName]
                IN  <<shadername \o "_" \o colorName \o "_" \o intensityName,
                      [shader EXCEPT !.meta =
                          Put(Put(@, "lightIntensity", customs.m[intensityName]),
                              "lightColor", [r |-> rgb[1], g |-> rgb[2], b |-> rgb[3]])]>>]
        ELSE [k \in 1..Len(predefs.order) |->
                LET intensityName == predefs.order[k]
                IN  <<shadername \o "_" \o intensityName,
                      [shader EXCEPT !.meta =
                          Put(@, "lightIntensity", predefs.m[intensityName])]>>]

\* newShaders[name] = newShader for each of the pairs
RECURSIVE DictSetAll(_, _, _)
DictSetAll(d, pairs, i) ==
    IF i > Len(pairs) THEN d
    ELSE Apply(LAMBDA d1 : DictSetAll(d1, pairs, i + 1),
               DictSet(d, pairs[i][1], pairs[i][2]))

\* the loop of lines 328-355 from the i-th name on, on
\* x = [shaders, newShaders, delNames, exc]; a shader that lacks the key
\* addition (or, with an addition map, the metadata additionGrayscale) makes
\* the loop raise KeyError; line 354 changes the shader where it stands
RECURSIVE ExpandLoop(_, _, _)
ExpandLoop(x, names, i) ==
    IF i > Len(names) \/ x.exc # NoException THEN x
    ELSE LET shadername == names[i]
             shader     == x.shaders.m[shadername]
         IN  IF "addition" \notin DOMAIN shader
             THEN [x EXCEPT !.exc = "KeyError"]
             ELSE IF shader.addition = None
             THEN ExpandLoop(x, names, i + 1)
             ELSE IF "additionGrayscale" \notin DOMAIN shader.meta
             THEN [x EXCEPT !.exc = "KeyError"]
             ELSE LET off == [shader EXCEPT !.addition = None]
                      withVariants(pairs) ==
                          Apply(LAMBDA d : DictSet(d, shadername \o "_off", off),
                                DictSetAll(x.newShaders, pairs, 1))
                  IN  Apply(LAMBDA x1 : ExpandLoop(x1, names, i + 1),
                            [shaders    |-> DictSet(x.shaders, shadername, off),
                             newShaders |-> Apply(withVariants,
                                                  LightVariants(shadername, shader)),
                             delNames   |-> x.delNames \cup {shadername},
                             exc        |-> NoException])

\* self.sets[setname].pop(shadername) for every name of delNames
PopAll(d, names) ==
    [order |-> SelectSeq(d.order, LAMBDA k : k \notin names),
     m     |-> [k \in Keys(d) \ names |-> d.m[k]]]

\* __expandLightShaders on the shaders of one set: [shaders, exc]
__expandLightShaders(shaders) ==
    LET finish(x) ==
            IF x.exc # NoException
            THEN [shaders |-> x.shaders, exc |-> x.exc]
            ELSE [shaders |-> Apply(LAMBDA kept : DictUpdate(kept, x.newShaders),
                                    PopAll(x.shaders, x.delNames)),
                  exc     |-> NoException]
    IN  Apply(finish,
              ExpandLoop([shaders |-> shaders, newShaders |-> EmptyDict,
                          delNames |-> {}, exc |-> NoException],
                         shaders.order, 1))

(***************************************************************************)
(* generateSet.                                                            *)
(***************************************************************************)
\* lines 390-394
SetName(dir, setname, cutextension) ==
    IF setname # None THEN setname
    ELSE IF cutextension # None /\ Len(cutextension) > 0
    THEN RSplitHead(RelPath(dir.abspath), cutextension)
    ELSE RelPath(dir.abspath)

\* the body of the loop of lines 407-451 for one diffuse map, on
\* g = [shaders, stderr, exc, created]: the shader is put into the set when
\* it is made (line 411) and stays there, as far as it got, when a later
\* line raises
AddShader(g, opts, suf, dir, diffusename) ==
    LET make(shadername) ==
            LET maps(st0)    == FindMaps(st0, dir, suf, 1)
                analyze(st1) == IF st1.exc # NoException THEN st1
                                ELSE __analyzeMaps(st1, dir)
                keywords(st2) ==
                    [shaders |-> DictSet(g.shaders, shadername,
                                         IF st2.exc # NoException THEN st2.shader
                                         ELSE __addKeywords(st2.shader)),
                     stderr  |-> st2.stderr,
                     exc     |-> st2.exc,
                     created |-> Append(g.created, shadername)]
            IN  Apply(keywords,
                      Apply(analyze,
                            Apply(maps,
                                  [shader |-> InitShader(opts, shadername, dir,
                                                         diffusename),
                                   stderr |-> g.stderr, exc |-> NoException])))
    IN  Apply(make, RSplitHead(diffusename, suf.diffuse))

\* AddShaders with line 414 sharing the options instead of copying them:
\* what an option file gives one shader is handed on to the shaders after it
RECURSIVE AddShadersShared(_, _, _, _, _, _)
AddShadersShared(g, opts, suf, dir, order, i) ==
    IF i > Len(order) \/ g.exc # NoException THEN g
    ELSE Apply(LAMBDA g1 :
                   AddShadersShared(g1, g1.shaders.m[g1.created[Len(g1.created)]].options,
                                    suf, dir, order, i + 1),
               AddShader(g, opts, suf, dir, order[i]))

\* the loop of lines 407-451 over the diffuse maps in the order given; the
\* per-folder options are the same for every shader of the folder
RECURSIVE AddShaders(_, _, _, _, _, _)
AddShaders(g, opts, suf, dir, order, i) ==
    IF i > Len(order) \/ g.exc # NoException THEN g
    ELSE Apply(LAMBDA g1 : AddShaders(g1, opts, suf, dir, order, i + 1),
               AddShader(g, opts, suf, dir, order[i]))

\* generateSet(path, setname, cutextension) on the registry allsets with the
\* global options opts, the diffuse maps taken in the given order. The
\* result: the registry, the name of the set, what was printed, the
\* exception raised, the names of the shaders made, and the shaders of the
\* set as they are when line 456 is reached
GenerateSet(allsets, opts, suf, dir, setnameArg, cutextension, order) ==
    LET setname == SetName(dir, setnameArg, cutextension)
        sets1   == IF setname \in Keys(allsets) THEN allsets
                   ELSE DictSet(allsets, setname, EmptyDict)
        folder  == IF <<"options", slothFileExt>> \in dir.files
                   THEN __parseSlothFile(__copyOptions(opts), dir.sloth["options"],
                                         dir.abspath \o "/" \o defaultSlothFile)
                   ELSE Result(__copyOptions(opts), <<>>, NoException)
        out(reg, stderr, exc, created, pre) ==
            [sets |-> reg, setname |-> setname, stderr |-> stderr, exc |-> exc,
             created |-> created, pre |-> pre]
        \* lines 453-460, g the outcome of the loop over the diffuse maps
        expand(g) ==
            IF g.exc # NoException
            THEN out(DictSet(sets1, setname, g.shaders), g.stderr, g.exc,
                     g.created, EmptyDict)
            ELSE Apply(LAMBDA e :
                     IF e.exc # NoException
                     THEN out(DictSet(sets1, setname, e.shaders), g.stderr, e.exc,
                              g.created, g.shaders)
                     ELSE out(DictSet(sets1, setname, e.shaders),
                              Append(g.stderr,
                                     setname \o ": Added "
                                     \o ToString(Len(e.shaders.order))
                                     \o " shaders for "
                                     \o ToString(Len(g.shaders.order))
                                     \o " texture variants."),
                              NoException, g.created, g.shaders),
                     __expandLightShaders(g.shaders))
        \* lines 406-451, f the outcome of reading the per-folder options
        shaders(f) ==
            IF f.exc # NoException
            THEN out(sets1, f.stderr, f.exc, <<>>, EmptyDict)
            ELSE IF ~HasMapTypes(dir)
            THEN out(sets1, f.stderr, "KeyError", <<>>, EmptyDict)
            ELSE Apply(expand,
                       AddShaders([shaders |-> sets1.m[setname], stderr |-> f.stderr,
                                   exc |-> NoException, created |-> <<>>],
                                  f.options, suf, dir, order, 1))
    IN  Apply(shaders, folder)

(***************************************************************************)
(* getShader.                                                              *)
(***************************************************************************)
\* n ** e for a whole exponent
RECURSIVE Power(_, _)
Power(n, e) == IF e <= 0 THEN 1 ELSE n * Power(n, e - 1)

\* "%.2f" % __radToAdd(shader, c / 0xff) for a color channel c and an
\* exponent exp (a float whose value is whole in the model): the quotient
\* c**e / 255**e rounded to hundredths, which no channel value hits halfway
RadToAddText(exp, c) ==
    LET e   == exp \div 100
        num == Power(c, e)
        den == Power(255, e)
    IN  Format2f((200 * num + den) \div (2 * den))

\* key + " " * max(1, 20 - len(key)) + value, as lines 541 and 543 write it
KeywordLine(key, value) ==
    "\t" \o key \o Spaces(Max(1, 20 - Len(key))) \o value \o "\n"

RECURSIVE KeywordLines(_, _, _)
KeywordLines(key, values, i) ==
    IF i > Len(values) THEN ""
    ELSE KeywordLine(key, values[i]) \o KeywordLines(key, values, i + 1)

\* lines 538-543 for the keys from the i-th on, keys in sorted order
RECURSIVE KeywordsText(_, _, _)
KeywordsText(kw, keys, i) ==
    IF i > Len(keys) THEN ""
    ELSE LET value == kw[keys[i]]
         IN  (IF "set" \in DOMAIN value
              THEN KeywordLines(keys[i], Sorted(value.set), 1)
              ELSE KeywordLine(keys[i], value.str))
             \o KeywordsText(kw, keys, i + 1)

\* the keys lines 517-588 read of a shader on every path through them
ReadKeys == {"relpath", "preview", "diffuse", "meta", "options",
             "normal", "height", "specular", "addition"}

\* lines 513-600 for one shader: the text added to content, or the KeyError
\* that reading a key the shader does not have raises
ShaderText(setname, shadername, shader) ==
    IF \/ ReadKeys \ DOMAIN shader # {}
       \/ (shader.diffuse # None /\ "diffuseAlpha" \notin DOMAIN shader.meta)
    THEN [text |-> "", exc |-> "KeyError"]
    ELSE
    LET path    == shader.relpath \o "/"
        meta    == shader.meta
        opt     == shader.options
        preview == IF shader.preview # None THEN shader.preview
                   ELSE IF shader.diffuse # None THEN shader.diffuse
                   ELSE None
        hasColor == "lightColor" \in DOMAIN meta
        kwText  ==
            IF "keywords" \in DOMAIN shader /\ DOMAIN shader.keywords # {}
            THEN KeywordsText(shader.keywords, Sorted(DOMAIN shader.keywords), 1) \o "\n"
            ELSE ""
        lightText ==
            IF "lightIntensity" \in DOMAIN meta /\ meta.lightIntensity > 0
            THEN "\tq3map_surfacelight  " \o ToString(meta.lightIntensity) \o "\n"
                 \o (IF hasColor
                     THEN "\tq3map_lightRGB      "
                          \o RadToAddText(100, meta.lightColor.r) \o " "
                          \o RadToAddText(100, meta.lightColor.g) \o " "
                          \o RadToAddText(100, meta.lightColor.b) \o "\n\n"
                     ELSE IF shader.addition # None
                     THEN "\tq3map_lightImage    " \o shader.addition \o "\n\n"
                     ELSE IF shader.diffuse # None
                     THEN "\tq3map_lightImage    " \o shader.diffuse \o "\n\n"
                     ELSE "\tq3map_lightRGB      1.00 1.00 1.00\n\n")
            ELSE ""
        diffuseText ==
            IF shader.diffuse = None THEN ""
            ELSE IF meta.diffuseAlpha /\ ~Truthy(opt.alphaTest)
            THEN "\t{\n" \o "\t\tmap   " \o path \o shader.diffuse \o "\n"
                 \o "\t\tblend blend\n" \o "\t}\n"
            ELSE "\tdiffuseMap          " \o path \o shader.diffuse \o "\n"
        heightText ==
            "heightmap ( " \o path \o shader.height \o ", "
            \o Format2f(opt.heightNormalsMod) \o " )"
        normalText ==
            IF shader.normal # None
            THEN IF shader.height # None /\ opt.heightNormalsMod > 0
                 THEN "\tnormalMap           addnormals ( " \o path \o shader.normal
                      \o ", " \o heightText \o " )\n"
                 ELSE "\tnormalMap           " \o path \o shader.normal \o "\n"
            ELSE IF shader.height # None /\ opt.heightNormalsMod > 0
            THEN "\tnormalMap           " \o heightText \o "\n"
            ELSE ""
        specularText ==
            IF shader.specular # None
            THEN "\tspecularMap         " \o path \o shader.specular \o "\n"
            ELSE ""
        additionText ==
            IF shader.addition = None THEN ""
            ELSE "\t{\n" \o "\t\tmap   " \o path \o shader.addition \o "\n"
                 \o "\t\tblend add\n"
                 \o (IF hasColor
                     THEN "\t\tred   " \o RadToAddText(opt.radToAddExp, meta.lightColor.r) \o "\n"
                          \o "\t\tgreen " \o RadToAddText(opt.radToAddExp, meta.lightColor.g) \o "\n"
                          \o "\t\tblue  " \o RadToAddText(opt.radToAddExp, meta.lightColor.b) \o "\n"
                     ELSE "")
                 \o "\t}\n"
    IN  [text |-> "\n" \o setname \o "/" \o shadername \o "\n{\n"
                  \o (IF preview # None
                      THEN "\tqer_editorImage     " \o path \o preview \o "\n\n"
                      ELSE "")
                  \o kwText \o lightText \o diffuseText \o normalText
                  \o specularText \o additionText \o "}\n",
         exc  |-> NoException]

\* the loop of lines 511-600 over names, on r = [content, shadername, exc];
\* the loop variable is the parameter shadername of getShader itself
RECURSIVE RenderNames(_, _, _, _, _)
RenderNames(r, setname, shaders, names, i) ==
    IF i > Len(names) \/ r.exc # NoException THEN r
    ELSE Apply(LAMBDA r1 : RenderNames(r1, setname, shaders, names, i + 1),
               Apply(LAMBDA t : [content    |-> r.content \o t.text,
                                 shadername |-> names[i],
                                 exc        |-> t.exc],
                     ShaderText(setname, names[i], shaders.m[names[i]])))

\* the three comment lines that open the text of a set
Banner(setname) ==
    "\n" \o "// " \o Dashes(Len(setname)) \o "\n"
         \o "// " \o setname \o "\n"
         \o "// " \o Dashes(Len(setname)) \o "\n"

\* the loop of lines 497-600 over setnames, from the i-th on
RECURSIVE RenderSets(_, _, _, _)
RenderSets(r, allsets, setnames, i) ==
    IF i > Len(setnames) \/ r.exc # NoException THEN r
    ELSE LET setname == setnames[i]
             shaders == allsets.m[setname]
             rest(r1) == RenderSets(r1, allsets, setnames, i + 1)
         IN  IF r.shadername # None
             THEN IF r.shadername \in Keys(shaders)
                  THEN Apply(rest,
                             RenderNames(r, setname, shaders, <<r.shadername>>, 1))
                  ELSE rest(r)
             ELSE Apply(rest,
                        Apply(LAMBDA names :
                                  RenderNames([r EXCEPT !.content = @ \o Banner(setname)],
                                              setname, shaders, names, 1),
                              Sorted(Keys(shaders))))

\* lines 482-486
RECURSIVE HeaderText(_, _)
HeaderText(lines, i) ==
    IF i > Len(lines) THEN ""
    ELSE (IF StartsWith(lines[i], "//") THEN lines[i] \o "\n"
          ELSE "// " \o lines[i] \o "\n")
         \o HeaderText(lines, i + 1)

\* getShader(setname, shadername): what it returns (returned = FALSE when it
\* returns None or raises), what it prints, and the exception it raises
GetShader(allsets, hdr, setname, shadername) ==
    IF setname # None /\ setname \notin Keys(allsets)
    THEN [returned |-> FALSE, content |-> "",
          stderr |-> <<"Unknown set " \o setname \o ".">>, exc |-> NoException]
    ELSE LET setnames == IF setname # None THEN <<setname>> ELSE allsets.order
             start(text) == RenderSets([content |-> text, shadername |-> shadername,
                                        exc |-> NoException],
                                       allsets, setnames, 1)
             finish(r) ==
                 IF r.exc # NoException
                 THEN [returned |-> FALSE, content |-> "", stderr |-> <<>>,
                       exc |-> r.exc]
                 ELSE [returned |-> TRUE, content |-> r.content, stderr |-> <<>>,
                       exc |-> NoException]
         IN  Apply(finish,
                   Apply(start, Apply(LAMBDA lines : HeaderText(lines, 1),
                                      SplitLines(hdr))))

(***************************************************************************)
(* The source folders and the arguments of the calls.                      *)
(***************************************************************************)
Img(mode) == [mode |-> mode, transparency |-> FALSE]

\* a wall with a variant that shares its normal map, and a map whose name
\* ends with the normal suffix twice
FolderWalls ==
    [abspath |-> "/g/t/w_src",
     files   |-> {<<"wall_d", ".tga">>, <<"wallb_d", ".tga">>,
                  <<"wall_n", ".tga">>, <<"wall_n_n", ".tga">>},
     sloth   |-> <<>>,
     image   |-> [wall_d |-> Img("RGBA"), wallb_d |-> Img("RGB"),
                  wall_n |-> Img("RGB"), wall_n_n |-> Img("RGB")]]

\* light emitting shaders, with a grayscale and a colored addition map
FolderLamps ==
    [abspath |-> "/g/t/lamp",
     files   |-> {<<"lamp_d", ".tga">>, <<"lamp_a", ".tga">>,
                  <<"glow_d", ".png">>, <<"glow_a", ".png">>,
                  <<"options", ".sloth">>},
     sloth   |-> [options |-> [add_colors        |-> "red:ff0000 red",
                               add_custom_lights |-> "1000",
                               add_predef_lights |-> "200"]],
     image   |-> [lamp_d |-> Img("RGB"), lamp_a |-> Img("L"),
                  glow_d |-> Img("RGBA"), glow_a |-> Img("RGB")]]

\* a per-folder option file and an option file of the shader wall
FolderOptions ==
    [abspath |-> "/g/t/opt",
     files   |-> {<<"wall_d", ".tga">>, <<"wall_d", ".sloth">>,
                  <<"floor_d", ".tga">>, <<"floor_a", ".tga">>,
                  <<"options", ".sloth">>},
     sloth   |-> [options |-> [colors |-> "red:ff0000"],
                  wall_d  |-> [add_colors |-> "blue:0000ff"]],
     image   |-> [wall_d |-> Img("RGB"), floor_d |-> Img("LA"), floor_a |-> Img("L")]]

\* an option file named like a normal map
FolderNormalOptions ==
    [abspath |-> "/g/t/nopt",
     files   |-> {<<"wall_d", ".tga">>, <<"wallb_d", ".tga">>,
                  <<"wall_n", ".tga">>, <<"wall_n", ".sloth">>,
                  <<"options", ".sloth">>},
     sloth   |-> [options |-> [colors |-> "red:ff0000"],
                  wall_n  |-> [add_colors |-> "blue:0000ff"]],
     image   |-> [wall_d |-> Img("RGB"), wallb_d |-> Img("RGB"), wall_n |-> Img("RGB")]]

\* an option file named like an addition map
FolderAdditionOptions ==
    [abspath |-> "/g/t/aopt",
     files   |-> {<<"lamp_d", ".tga">>, <<"lamp_a", ".tga">>, <<"lamp_a", ".sloth">>},
     sloth   |-> [lamp_a |-> [add_custom_lights |-> "1000"]],
     image   |-> [lamp_d |-> Img("RGB"), lamp_a |-> Img("L")]]

\* diffuse maps whose names hold the diffuse suffix more than once
FolderDoors ==
    [abspath |-> "/g/t/door",
     files   |-> {<<"a_door_d", ".tga">>, <<"a_d", ".tga">>},
     sloth   |-> <<>>,
     image   |-> [a_door_d |-> Img("RGB"), a_d |-> Img("RGB")]]

\* a diffuse map whose name is the diffuse suffix alone
FolderBare ==
    [abspath |-> "/g/t/bare",
     files   |-> {<<"_d", ".tga">>},
     sloth   |-> <<>>,
     image   |-> [_d |-> Img("RGB")]]

\* a folder without any image
FolderEmpty ==
    [abspath |-> "/g/t/none", files |-> {}, sloth |-> <<>>, image |-> <<>>]

Folders == {FolderWalls, FolderLamps, FolderOptions, FolderNormalOptions,
            FolderAdditionOptions, FolderDoors, FolderBare, FolderEmpty}

\* the sequences that list every element of the finite set S once: the
\* orders in which Python may iterate over a set of strings
Orders(S) ==
    {o \in [1..Cardinality(S) -> S] : \A i, j \in 1..Cardinality(S) : o[i] = o[j] => i = j}

\* generateSet(path, setname, cutextension): the set name and the suffix to cut
SetNameArgs == {<<None, None>>, <<None, "_src">>, <<"S", None>>}

\* getShader(setname, shadername)
GetShaderArgs == {None, "S", "t/w", "zz"} \X {None, "wall"}

\* setAlphaTest(test)
AlphaTests == {PyNone, PyStr("GT0"), PyStr("LT129"), PyFloat(0), PyFloat(50),
               PyFloat(200), PyInt(1)}

\* addLightColor(name, color)
LightColors == {<<"blue", "0000ff">>, <<"red", "00ff00">>, <<"bad", "ff00">>}

\* addCustomLightIntensity(intensity), addPredefLightIntensity(intensity)
Intensities == {0 - 1, 0, 250, 10000, 10500}

Headers == {"Generated\n// by sloth"}

\* setSuffixes with another diffuse suffix
OtherSuffixes == {[DefaultSuffixes EXCEPT !.diffuse = "_n", !.normal = "_d"]}

(***************************************************************************)
(* The generator: its state and its public methods.                        *)
(***************************************************************************)
\* __init__
Init ==
    /\ sets = EmptyDict
    /\ header = ""
    /\ suffixes = DefaultSuffixes
    /\ options = DefaultOptions
    /\ last = [op |-> "__init__"]
    /\ nops = 0

\* nops counts the state-changing calls made so far; getShader is not one
Changing == nops' = nops + 1

\* another state-changing call may be made
Allowed == nops < MaxOps

Setter(op, opts) ==
    /\ Allowed
    /\ Changing
    /\ options' = opts
    /\ last' = [op |-> op, exc |-> NoException, stderr |-> <<>>]
    /\ UNCHANGED <<sets, header, suffixes>>

setHeader ==
    \E text \in Headers :
        /\ Allowed
        /\ Changing
        /\ header' = text
        /\ last' = [op |-> "setHeader", exc |-> NoException, stderr |-> <<>>]
        /\ UNCHANGED <<sets, suffixes, options>>

setSuffixes ==
    \E suf \in {DefaultSuffixes} \cup OtherSuffixes :
        /\ Allowed
        /\ Changing
        /\ suffixes' = suf
        /\ last' = [op |-> "setSuffixes", exc |-> NoException, stderr |-> <<>>]
        /\ UNCHANGED <<sets, header, options>>

setKeywordGuessing ==
    \E value \in BOOLEAN :
        Setter("setKeywordGuessing", __setKeywordGuessing(options, value))

setRadToAddExponent ==
    \E value \in {100, 200} :
        Setter("setRadToAddExponent", __setRadToAddExponent(options, value))

setHeightNormalsMod ==
    \E value \in {0, 100} :
        Setter("setHeightNormalsMod", __setHeightNormalsMod(options, value))

setAlphaShadows ==
    \E value \in BOOLEAN : Setter("setAlphaShadows", __setAlphaShadows(options, value))

setAlphaTest ==
    /\ Allowed
    /\ \E test \in AlphaTests :
        \E r \in {__setAlphaTest(options, test)} :
            /\ Changing
            /\ options' = r.options
            /\ last' = [op |-> "setAlphaTest", test |-> test, exc |-> r.exc,
                        stderr |-> r.stderr]
            /\ UNCHANGED <<sets, header, suffixes>>

addLightColor ==
    /\ Allowed
    /\ \E c \in LightColors :
        \E r \in {__addLightColor(options, c[1], c[2])} :
            /\ Changing
            /\ options' = r.options
            /\ last' = [op |-> "addLightColor", name |-> c[1], color |-> c[2],
                        before |-> options, exc |-> r.exc, stderr |-> r.stderr]
            /\ UNCHANGED <<sets, header, suffixes>>

\* the body shared by the two public methods that add an intensity
AddIntensity(op, intensity, custom) ==
    /\ Allowed
    /\ \E r \in {__addLightIntensity(options, intensity, custom)} :
        /\ Changing
        /\ options' = r.options
        /\ last' = [op |-> op, intensity |-> intensity, custom |-> custom,
                    before |-> options, exc |-> r.exc, stderr |-> r.stderr]
        /\ UNCHANGED <<sets, header, suffixes>>

addCustomLightIntensity ==
    \E intensity \in Intensities :
        AddIntensity("addCustomLightIntensity", intensity, TRUE)

addPredefLightIntensity ==
    \E intensity \in Intensities :
        AddIntensity("addPredefLightIntensity", intensity, FALSE)

generateSet ==
    /\ Allowed
    /\ \E dir \in Folders, a \in SetNameArgs :
        \E order \in Orders(IF HasMapTypes(dir)
                            THEN MapsByType(dir, suffixes, "diffuse") ELSE {}) :
            \E r \in {GenerateSet(sets, options, suffixes, dir, a[1], a[2], order)} :
                /\ Changing
                /\ sets' = r.sets
                /\ last' = [op |-> "generateSet", dir |-> dir, setnameArg |-> a[1],
                            setname |-> r.setname, before |-> sets,
                            options |-> options,
                            created |-> r.created, pre |-> r.pre,
                            exc |-> r.exc, stderr |-> r.stderr]
                /\ UNCHANGED <<header, suffixes, options>>

clearSets ==
    /\ Allowed
    /\ Changing
    /\ sets' = EmptyDict
    /\ last' = [op |-> "clearSets", exc |-> NoException, stderr |-> <<>>]
    /\ UNCHANGED <<header, suffixes, options>>

\* getShader forgetting the shaders it has rendered
getShaderForgetting ==
    \E a \in GetShaderArgs :
        \E r \in {GetShader(sets, header, a[1], a[2])} :
            /\ last' = [op |-> "getShader", setname |-> a[1], shadername |-> a[2],
                        returned |-> r.returned, content |-> r.content,
                        exc |-> r.exc, stderr |-> r.stderr]
            /\ sets' = IF r.returned THEN EmptyDict ELSE sets
            /\ UNCHANGED <<header, suffixes, options, nops>>

getShader ==
    \E a \in GetShaderArgs :
        \E r \in {GetShader(sets, header, a[1], a[2])} :
            /\ last' = [op |-> "getShader", setname |-> a[1], shadername |-> a[2],
                        returned |-> r.returned, content |-> r.content,
                        exc |-> r.exc, stderr |-> r.stderr]
            /\ UNCHANGED <<sets, header, suffixes, options, nops>>

Next ==
    \/ setHeader
    \/ setSuffixes
    \/ setKeywordGuessing
    \/ setRadToAddExponent
    \/ setHeightNormalsMod
    \/ setAlphaTest
    \/ setAlphaShadows
    \/ addLightColor
    \/ addCustomLightIntensity
    \/ addPredefLightIntensity
    \/ generateSet
    \/ clearSets
    \/ getShader

Spec == Init /\ [][Next]_vars

(***************************************************************************)
(* Properties of generateSet: the slots of the shaders.                    *)
(***************************************************************************)
NonDiffuse == {MapTypes[i] : i \in 1..Len(MapTypes)} \ {"diffuse"}

\* the lengths of the non-empty prefixes p of name for which p + suffix is
\* an image of the folder recorded under maptype
MatchingPrefixes(dir, suf, maptype, name) ==
    {k \in 1..Len(name) :
        (Substr(name, 1, k) \o suf[maptype]) \in MapsByType(dir, suf, maptype)}

\* p + suffix for the longest such prefix p
LongestMatch(dir, suf, maptype, name) ==
    Substr(name, 1, SetMax(MatchingPrefixes(dir, suf, maptype, name))) \o suf[maptype]

\* the shader the last generateSet made under name, as it is when the loop
\* over the diffuse maps ends (or stops with an exception)
MadeShader(name) ==
    IF last.pre = EmptyDict THEN sets.m[last.setname].m[name] ELSE last.pre.m[name]

\* C1 (as amended): every shader made by generateSet has, for every
\* non-diffuse map type T with suffix s, its slot T resolved by the longest
\* non-empty prefix p of its name for which p + s is an image recorded under
\* T: the slot holds p + s, unless p + s is also the name of a per-shader
\* option file, and then the slot is given no value at all; without such a
\* prefix the slot holds None.
C1_LongestPrefixSlot ==
    last.op = "generateSet" =>
        \A i \in 1..Len(last.created) : \A T \in NonDiffuse :
            LET name == last.created[i]
                sh   == MadeShader(name)
            IN  IF MatchingPrefixes(last.dir, suffixes, T, name) = {}
                THEN T \in DOMAIN sh /\ sh[T] = None
                ELSE IF LongestMatch(last.dir, suffixes, T, name) \in SlothFiles(last.dir)
                THEN T \notin DOMAIN sh
                ELSE T \in DOMAIN sh
                     /\ sh[T] = LongestMatch(last.dir, suffixes, T, name)

\* a shader whose slot was resolved by a shortened name
C1_Witness ==
    /\ last.op = "generateSet"
    /\ \E i \in 1..Len(last.created) : \E T \in NonDiffuse :
          LET name == last.created[i]
              P    == MatchingPrefixes(last.dir, suffixes, T, name)
          IN  /\ P # {}
              /\ SetMax(P) < Len(name)
              /\ T \in DOMAIN MadeShader(name)
              /\ MadeShader(name)[T] = LongestMatch(last.dir, suffixes, T, name)

\* C1 as stated: the slot holds p + s whenever such a prefix exists, and
\* None otherwise
C1_AsStated ==
    last.op = "generateSet" =>
        \A i \in 1..Len(last.created) : \A T \in NonDiffuse :
            LET name == last.created[i]
                sh   == MadeShader(name)
            IN  /\ T \in DOMAIN sh
                /\ sh[T] = IF MatchingPrefixes(last.dir, suffixes, T, name) = {}
                           THEN None
                           ELSE LongestMatch(last.dir, suffixes, T, name)

(***************************************************************************)
(* Properties of generateSet: sets that grow over several calls.           *)
(***************************************************************************)
\* the entries of the dict d whose keys are in S
Restrict(d, S) ==
    [order |-> SelectSeq(d.order, LAMBDA k : k \in S),
     m     |-> [k \in Keys(d) \cap S |-> d.m[k]]]

\* the names of the shaders the last generateSet made from its folder
CreatedNames == {last.created[i] : i \in 1..Len(last.created)}

\* the shaders of the last generateSet's folder with their light variants:
\* the expansion applied to the shaders made from the folder only
ProducedShaders == __expandLightShaders(Restrict(last.pre, CreatedNames)).shaders

\* C2: after a generateSet into a set that an earlier call with the same
\* explicit set name made, the set holds every shader it held before whose
\* name the second call does not produce, under its name and unchanged,
\* together with the shaders produced from the second folder and nothing
\* else: the light expansion of the second call acts on the shaders of the
\* second folder only.
C2_MergeKeepsEarlierShaders ==
    (/\ last.op = "generateSet"
     /\ last.exc = NoException
     /\ last.setnameArg # None
     /\ last.setname \in Keys(last.before)) =>
        LET old  == last.before.m[last.setname]
            new  == sets.m[last.setname]
            made == ProducedShaders
        IN  /\ Keys(new) = Keys(old) \cup Keys(made)
            /\ \A n \in Keys(made) : new.m[n] = made.m[n]
            /\ \A n \in Keys(old) \ Keys(made) : new.m[n] = old.m[n]

(***************************************************************************)
(* Properties of the light expansion.                                      *)
(***************************************************************************)
\* what C3 says of the shader M of the set as the expansion finds it, new
\* the set as the expansion leaves it
ExpandedAsClaimed(M, sh, new) ==
    LET C   == sh.options.lightColors
        I   == sh.options.customLights
        off == M \o "_off"
    IN  /\ M \notin Keys(new)
        /\ \A c \in Keys(C), i \in Keys(I) :
              LET name == M \o "_" \o c \o "_" \o i
              IN  /\ name \in Keys(new)
                  /\ new.m[name].meta.lightIntensity = I.m[i]
                  /\ new.m[name].meta.lightColor =
                         [r |-> C.m[c][1], g |-> C.m[c][2], b |-> C.m[c][3]]
        /\ off \in Keys(new)
        /\ new.m[off].addition = None
        /\ "lightIntensity" \notin DOMAIN new.m[off].meta
        /\ "lightColor" \notin DOMAIN new.m[off].meta
        /\ Cardinality({M \o "_" \o c \o "_" \o i : c \in Keys(C), i \in Keys(I)}
                       \cup {off}) = Cardinality(Keys(C)) * Cardinality(Keys(I)) + 1

\* C3: the light expansion replaces every shader M of the set that has an
\* addition map that is grayscale, with the colors C and the custom
\* intensities I in its options, by the |C|*|I| shaders M_<color>_<intensity>
\* that carry that intensity and that color, and by M_off without addition
\* map and without light metadata; the name M is not in the result.
C3_GrayscaleExpansion ==
    (last.op = "generateSet" /\ last.exc = NoException) =>
        \A M \in Keys(last.pre) :
            (last.pre.m[M].addition # None /\ last.pre.m[M].meta.additionGrayscale)
                => ExpandedAsClaimed(M, last.pre.m[M], sets.m[last.setname])

(***************************************************************************)
(* Properties of the option files.                                         *)
(***************************************************************************)
\* the search of lines 426-441 for the shader name ends, for some map type,
\* on a name that is a per-shader option file of the folder
HitsOptionFile(dir, suf, name) ==
    \E i \in 1..Len(MapTypes) :
        /\ MatchingPrefixes(dir, suf, MapTypes[i], name) # {}
        /\ LongestMatch(dir, suf, MapTypes[i], name) \in SlothFiles(dir)

\* the folders whose options.sloth sets colors = red and that hold one
\* per-shader option file, with add_colors = blue
CascadeFolders == {FolderOptions, FolderNormalOptions}

RECURSIVE BlocksText(_, _, _, _)
BlocksText(setname, shaders, names, i) ==
    IF i > Len(names) THEN ""
    ELSE ShaderText(setname, names[i], shaders.m[names[i]]).text
         \o BlocksText(setname, shaders, names, i + 1)

\* for each set from the i-th on, in the order of the registry: its banner,
\* then one block for each of its shaders in the order of their names
RECURSIVE AllSetsText(_, _)
AllSetsText(allsets, i) ==
    IF i > Len(allsets.order) THEN ""
    ELSE Banner(allsets.order[i])
         \o BlocksText(allsets.order[i], allsets.m[allsets.order[i]],
                       Sorted(Keys(allsets.m[allsets.order[i]])), 1)
         \o AllSetsText(allsets, i + 1)

\* C5: getShader without set name and without shader name returns, after the
\* header, for every set of the registry in registry order the banner of the
\* set followed by one block for every shader of the set in the order of
\* the names: no shader is left out and no set goes without its banner.
C5_AllSetsRendered ==
    (/\ last.op = "getShader"
     /\ last.setname = None
     /\ last.shadername = None
     /\ last.exc = NoException) =>
        /\ last.returned
        /\ last.content = HeaderText(SplitLines(header), 1) \o AllSetsText(sets, 1)

\* the two ways lines 561-569 write the diffuse map of a shader
BlendedDiffuse(sh) ==
    "\t{\n" \o "\t\tmap   " \o sh.relpath \o "/" \o sh.diffuse \o "\n"
            \o "\t\tblend blend\n" \o "\t}\n"

BareDiffuse(sh) == "\tdiffuseMap          " \o sh.relpath \o "/" \o sh.diffuse \o "\n"

\* C9: the text getShader returns for one shader that has a diffuse map
\* holds the blended block of the diffuse map and no diffuseMap line when the
\* diffuse map has an alpha channel and the alphaTest option of the shader is
\* None, and otherwise exactly one diffuseMap line and no blended block.
C9_BlendedIffAlphaWithoutTest ==
    (/\ last.op = "getShader"
     /\ last.returned
     /\ last.setname # None
     /\ last.shadername # None
     /\ last.shadername \in Keys(sets.m[last.setname])) =>
        LET sh == sets.m[last.setname].m[last.shadername]
        IN  sh.diffuse # None =>
                IF sh.meta.diffuseAlpha /\ sh.options.alphaTest = PyNone
                THEN /\ Contains(last.content, BlendedDiffuse(sh))
                     /\ ~Contains(last.content, "\tdiffuseMap ")
                ELSE /\ Cardinality(Occurrences(last.content, BareDiffuse(sh))) = 1
                     /\ Cardinality(Occurrences(last.content, "\tdiffuseMap ")) = 1
                     /\ ~Contains(last.content, BlendedDiffuse(sh))

IntensityOps == {"addCustomLightIntensity", "addPredefLightIntensity"}

\* the name C6 gives the intensity n
ClaimedIntensityName(n) ==
    IF n = 0 THEN "norad"
    ELSE IF n >= 10000 THEN ToString(n \div 1000) \o "k"
    ELSE ToString(n)

\* C6: adding an intensity n returns normally; for n >= 0 it stores n under
\* the derived name in the chosen map and leaves the other map alone, for
\* n < 0 it prints a warning and leaves both maps alone.
C6_IntensityTotal ==
    last.op \in IntensityOps =>
        LET target == IF last.custom THEN "customLights" ELSE "predefLights"
            other  == IF last.custom THEN "predefLights" ELSE "customLights"
            name   == ClaimedIntensityName(last.intensity)
        IN  /\ last.exc = NoException
            /\ options[other] = last.before[other]
            /\ IF last.intensity >= 0
               THEN /\ Keys(options[target]) = Keys(last.before[target]) \cup {name}
                    /\ options[target].m[name] = last.intensity
                    /\ \A k \in Keys(last.before[target]) \ {name} :
                          options[target].m[k] = last.before[target].m[k]
               ELSE /\ options[target] = last.before[target]
                    /\ last.stderr # <<>>

\* C7: adding an intensity whose derived name is a key of the chosen map
\* with another value puts the new value under that key and prints a
\* warning.
C7_CollisionWarns ==
    (last.op \in IntensityOps /\ last.intensity >= 0) =>
        LET target == IF last.custom THEN "customLights" ELSE "predefLights"
            name   == ClaimedIntensityName(last.intensity)
        IN  (/\ name \in Keys(last.before[target])
             /\ last.before[target].m[name] # last.intensity) =>
                /\ options[target].m[name] = last.intensity
                /\ last.stderr # <<>>

(***************************************************************************)
(* Properties of generateSet: the names of the shaders.                    *)
(***************************************************************************)
\* C8: when generateSet has made a shader for every diffuse map of the
\* folder, the names of the shaders with the diffuse suffix put back are the
\* names of the diffuse maps: each shader is named like its diffuse map
\* without the one suffix at its end.
C8_NameIsDiffuseWithoutSuffix ==
    (/\ last.op = "generateSet"
     /\ HasMapTypes(last.dir)
     /\ Len(last.created) = Cardinality(MapsByType(last.dir, suffixes, "diffuse"))) =>
        {last.created[i] \o suffixes.diffuse : i \in 1..Len(last.created)}
            = MapsByType(last.dir, suffixes, "diffuse")

(***************************************************************************)
(* Properties of generateSet: the shaders of the registry.                 *)
(***************************************************************************)
\* the diffuse maps of the folder of the last generateSet that line 408
\* gives the shader name
DiffuseSources(name) ==
    {b \in MapsByType(last.dir, suffixes, "diffuse") :
        RSplitHead(b, suffixes.diffuse) = name}

\* C11: every shader of the registry has a diffuse slot that holds a map,
\* and a shader that generateSet has just made from one diffuse map of the
\* folder holds that map in its diffuse slot, also when the name of the map
\* is the diffuse suffix alone.
C11_DiffuseSlotHeld ==
    /\ \A setname \in Keys(sets) : \A name \in Keys(sets.m[setname]) :
          /\ "diffuse" \in DOMAIN sets.m[setname].m[name]
          /\ sets.m[setname].m[name].diffuse # None
    /\ last.op = "generateSet" =>
          \A name \in CreatedNames :
              Cardinality(DiffuseSources(name)) = 1 =>
                  MadeShader(name).diffuse \in DiffuseSources(name)

\* the surfaceparm values among the keywords kw
SurfaceParmsOf(kw) == IF "surfaceparm" \in DOMAIN kw THEN kw.surfaceparm.set ELSE {}

\* C12: the keywords generateSet gives a shader whose diffuse map has an
\* alpha channel hold cull = none and, by the alphaTest option of the
\* shader: alphaFunc with its value when it is one of the strings, alphaTest
\* with the fraction in two decimals when it is a fraction (0 among them),
\* neither when it is None; alphashadows is one of the surfaceparm values
\* exactly when alphaShadows is set. Without alpha channel the shader gets
\* none of these keywords.
C12_AlphaKeywords ==
    last.op = "generateSet" =>
        \A name \in CreatedNames :
            LET sh == MadeShader(name)
                at == sh.options.alphaTest
                kw == sh.keywords
            IN  "keywords" \in DOMAIN sh =>
                    IF sh.meta.diffuseAlpha
                    THEN /\ "cull" \in DOMAIN kw
                         /\ kw.cull = KwStr("none")
                         /\ ("alphaFunc" \in DOMAIN kw) = (at.type = "str")
                         /\ ("alphaTest" \in DOMAIN kw) = (at.type = "float")
                         /\ at.type = "str" => kw.alphaFunc = KwStr(at.s)
                         /\ at.type = "float" => kw.alphaTest = KwStr(Format2f(at.f))
                         /\ ("alphashadows" \in SurfaceParmsOf(kw)) = sh.options.alphaShadows
                    ELSE /\ DOMAIN kw \cap {"cull", "alphaFunc", "alphaTest"} = {}
                         /\ "alphashadows" \notin SurfaceParmsOf(kw)

\* C13: every shader of the registry has a value, a map name or None, for
\* each of the six map types, also when the search for a map type ended on
\* a per-shader option file.
C13_EverySlotDefined ==
    \A setname \in Keys(sets) : \A name \in Keys(sets.m[setname]) :
        \A i \in 1..Len(MapTypes) : MapTypes[i] \in DOMAIN sets.m[setname].m[name]

====
